---------------------------- MODULE Spec2Model ----------------------------
(***************************************************************************)
(* A model of the voxel world of src/main.js (class VoxelWorld, chunked    *)
(* store, face-culled mesh extraction, ray/grid traversal, and the         *)
(* placeVoxel handler of main()) and of the single-cell VoxelWorld of      *)
(* src/unnamed/part_000.                                                   *)
(*                                                                         *)
(* Numbers.  A JavaScript number is represented in fixed point: the        *)
(* integer n stands for the number n / Unit.  Unit is chosen so that every *)
(* quotient and product the modelled code forms on the inputs of the model *)
(* is exact (Div and Mul are defined only where the result is exact), so   *)
(* the model computes in exact arithmetic; IEEE rounding is not modelled.  *)
(* Infinity and NaN are two values outside the finite range.  Voxel        *)
(* indices, cell indices, array offsets and voxel types are plain          *)
(* integers.                                                               *)
(***************************************************************************)
EXTENDS Integers, Sequences, FiniteSets, TLC

VARIABLES
    variant,       \* which program runs: "chunked" (main.js) or "single" (part_000)
    cellSize,      \* this.cellSize               main.js:8, part_000:8
    cells,         \* this.cells: cellID -> cell  main.js:14
    cell,          \* this.cell                   part_000:10
    cellIDToMesh,  \* cellIDToMesh of main()      main.js:353
    written,       \* history: the voxels setVoxel was called on
    last,          \* the most recent call, its arguments and what it returned
    pc,            \* position of main(): "api", "seed", "idle", "ray", "returned", "placed"
    ray,           \* the locals of intersectRay while it runs
    edits          \* history: the number of placeVoxel events that hit

vars == <<variant, cellSize, cells, cell, cellIDToMesh, written, last, pc, ray,
          edits>>

-----------------------------------------------------------------------------
(* Bounds of the model *)

\* The cell size the worlds of Spec and RaySpec are constructed with
\* (main() uses 32; CoordSpec also constructs a world of that size).
SmallCellSize == 2

\* Ray end points have half-integer x and y in -MaxRay/2 .. (MaxRay+1)/2.
MaxRay == 1

\* EditSpec handles at most this many placeVoxel events that hit.
MaxEdits == 2

-----------------------------------------------------------------------------
(* Program constants *)

tileSize == 16
tileTextureWidth == 256
tileTextureHeight == 64
mainCellSize == 32

-----------------------------------------------------------------------------
(* Numbers *)

RECURSIVE GCD(_, _)
GCD(a, b) == IF b = 0 THEN a ELSE GCD(b, a % b)

RECURSIVE LCMUpTo(_)
LCMUpTo(n) == IF n <= 1 THEN 1 ELSE LET l == LCMUpTo(n - 1) IN (l * n) \div GCD(l, n)

\* A ray component is at most 2*MaxRay+1 half units long.
Unit == 2 * LCMUpTo(2 * MaxRay + 1)
Half == Unit \div 2
Infinity == 1000 * Unit
NaN == Infinity + 1

Num(i) == i * Unit
IsFinite(a) == a # Infinity /\ a # NaN

Abs(a) == IF a = NaN THEN NaN ELSE IF a < 0 THEN -a ELSE a
Add(a, b) == IF a = NaN \/ b = NaN THEN NaN
             ELSE IF a = Infinity \/ b = Infinity THEN Infinity
             ELSE a + b
Sub(a, b) == IF a = NaN \/ b = NaN THEN NaN ELSE a - b
\* a * b; the finite case is defined only when exact
Mul(a, b) == CASE a = NaN \/ b = NaN -> NaN
               [] a # NaN /\ b # NaN /\ (a = Infinity \/ b = Infinity) ->
                     IF a = 0 \/ b = 0 THEN NaN ELSE Infinity
               [] IsFinite(a) /\ IsFinite(b) /\ (a * b) % Unit = 0 -> (a * b) \div Unit
\* a / b; 1/0 is Infinity, 0/0 is NaN; the finite case is defined only when exact
Div(a, b) == CASE a = NaN \/ b = NaN -> NaN
               [] IsFinite(a) /\ b = 0 -> IF a = 0 THEN NaN ELSE Infinity
               [] IsFinite(a) /\ IsFinite(b) /\ b > 0 /\ (a * Unit) % b = 0 ->
                     (a * Unit) \div b
               [] IsFinite(a) /\ IsFinite(b) /\ b < 0 /\ (a * Unit) % (-b) = 0 ->
                     -((a * Unit) \div (-b))
\* a < b, a <= b, a > b of JavaScript: false when either side is NaN
Lt(a, b) == a # NaN /\ b # NaN /\ a < b
Le(a, b) == a # NaN /\ b # NaN /\ a <= b
Gt(a, b) == Lt(b, a)

\* Math.floor, as an integer
MathFloor(a) == a \div Unit
\* a % b of JavaScript for b > 0: the remainder has the sign of the dividend
jsRem(a, b) == IF a >= 0 THEN a % b ELSE -((-a) % b)
\* (faulty variant) the remainder of JavaScript's % alone, negative for negative n
euclideanModulo_truncating(n, m) == jsRem(n, m)

\* THREE.MathUtils.euclideanModulo(n, m) = ((n % m) + m) % m
euclideanModulo(n, m) == jsRem(jsRem(n, m) + m, m)
\* a | 0: truncation toward zero, as an integer
ToInt32(a) == IF a >= 0 THEN a \div Unit ELSE -((-a) \div Unit)
\* a store into a Uint8Array keeps the value modulo 256
ToUint8(v) == v % 256

-----------------------------------------------------------------------------
(* VoxelWorld of main.js: the chunked store.  Every method is an operator  *)
(* of the store W (the value of this.cells) it is called on and returns    *)
(* [cells |-> the store when it returns, ret |-> what it returns].  Where  *)
(* a method goes on with the result of a call, the rest of its body is an  *)
(* operator of that result (setVoxelIn, getVoxelIn, ...).                  *)

\* an absent property of this.cells, and the return value of a method
\* that returns nothing or null
undefined == <<>>

cellSliceSize == cellSize * cellSize

\* a fresh Uint8Array(cellSize^3); element [i] of the array is at i + 1
NewCell == [i \in 1..(cellSize * cellSize * cellSize) |-> 0]

\* (faulty variant) voxelZ is added where voxelX should be
computeVoxelOffset_zTwice(x, y, z) ==
    ToInt32(euclideanModulo(y, Num(cellSize))) * cellSliceSize
        + ToInt32(euclideanModulo(z, Num(cellSize))) * cellSize
        + ToInt32(euclideanModulo(z, Num(cellSize)))

computeVoxelOffset(x, y, z) ==
    LET voxelX == ToInt32(euclideanModulo(x, Num(cellSize)))
        voxelY == ToInt32(euclideanModulo(y, Num(cellSize)))
        voxelZ == ToInt32(euclideanModulo(z, Num(cellSize)))
    IN  voxelY * cellSliceSize + voxelZ * cellSize + voxelX

\* (faulty variant) a / cellSize truncated toward zero instead of floored
cellCoord_truncating(a) ==
    IF a >= 0 THEN a \div Num(cellSize) ELSE -((-a) \div Num(cellSize))

\* Math.floor(a / cellSize), as an integer
cellCoord(a) == a \div Num(cellSize)

\* the cell ID; the string `${cellX},${cellY},${cellZ}` is the triple
computeCellID(x, y, z) ==
    LET cellX == cellCoord(x)
        cellY == cellCoord(y)
        cellZ == cellCoord(z)
    IN  <<cellX, cellY, cellZ>>

addCellForVoxel(W, x, y, z) ==
    LET cellID == computeCellID(x, y, z)
    IN  IF cellID \notin DOMAIN W
        THEN [cells |-> (cellID :> NewCell) @@ W, ret |-> NewCell]
        ELSE [cells |-> W, ret |-> W[cellID]]

\* (faulty variant) the lookup creates the cell it does not find
getCellForVoxel_creating(W, x, y, z) == addCellForVoxel(W, x, y, z)

getCellForVoxel(W, x, y, z) ==
    LET cellID == computeCellID(x, y, z)
    IN  [cells |-> W,
         ret |-> IF cellID \in DOMAIN W THEN W[cellID] ELSE undefined]

\* cell[voxelOffset] = v on the cell of (x, y, z), which exists in W
storeVoxel(W, x, y, z, v) ==
    LET cellID == computeCellID(x, y, z)
        voxelOffset == computeVoxelOffset(x, y, z)
    IN  [W EXCEPT ![cellID] = [@ EXCEPT ![voxelOffset + 1] = ToUint8(v)]]

\* (faulty variant) the cell is added but the voxel is not stored in the new cell
setVoxelIn_addOnly(got, x, y, z, v, addCell) ==
    IF got.ret = undefined
    THEN IF ~addCell
         THEN [cells |-> got.cells, ret |-> undefined]
         ELSE [cells |-> addCellForVoxel(got.cells, x, y, z).cells, ret |-> undefined]
    ELSE [cells |-> storeVoxel(got.cells, x, y, z, v), ret |-> undefined]

\* (faulty variant) the addCell flag is not looked at: a missing cell is always added
setVoxelIn_alwaysAdd(got, x, y, z, v, addCell) ==
    IF got.ret = undefined
    THEN [cells |-> storeVoxel(addCellForVoxel(got.cells, x, y, z).cells, x, y, z, v),
          ret |-> undefined]
    ELSE [cells |-> storeVoxel(got.cells, x, y, z, v), ret |-> undefined]

\* setVoxel after let cell = this.getCellForVoxel(x, y, z)
setVoxelIn(got, x, y, z, v, addCell) ==
    IF got.ret = undefined
    THEN IF ~addCell
         THEN [cells |-> got.cells, ret |-> undefined]
         ELSE [cells |-> storeVoxel(addCellForVoxel(got.cells, x, y, z).cells,
                                    x, y, z, v),
               ret |-> undefined]
    ELSE [cells |-> storeVoxel(got.cells, x, y, z, v), ret |-> undefined]

setVoxel(W, x, y, z, v, addCell) ==
    setVoxelIn(getCellForVoxel(W, x, y, z), x, y, z, v, addCell)

\* getVoxel after const cell = this.getCellForVoxel(x, y, z)
getVoxelIn(got, x, y, z) ==
    IF got.ret = undefined
    THEN [cells |-> got.cells, ret |-> 0]
    ELSE [cells |-> got.cells,
          ret |-> got.ret[computeVoxelOffset(x, y, z) + 1]]

getVoxel(W, x, y, z) == getVoxelIn(getCellForVoxel(W, x, y, z), x, y, z)

-----------------------------------------------------------------------------
(* Mesh extraction *)

\* VoxelWorld.faces: left, right, bottom, top, back, front
faces == <<
    [uvRow |-> 0, dir |-> <<-1, 0, 0>>,
     corners |-> << [pos |-> <<0, 1, 0>>, uv |-> <<0, 1>>],
                    [pos |-> <<0, 0, 0>>, uv |-> <<0, 0>>],
                    [pos |-> <<0, 1, 1>>, uv |-> <<1, 1>>],
                    [pos |-> <<0, 0, 1>>, uv |-> <<1, 0>>] >>],
    [uvRow |-> 0, dir |-> <<1, 0, 0>>,
     corners |-> << [pos |-> <<1, 1, 1>>, uv |-> <<0, 1>>],
                    [pos |-> <<1, 0, 1>>, uv |-> <<0, 0>>],
                    [pos |-> <<1, 1, 0>>, uv |-> <<1, 1>>],
                    [pos |-> <<1, 0, 0>>, uv |-> <<1, 0>>] >>],
    [uvRow |-> 1, dir |-> <<0, -1, 0>>,
     corners |-> << [pos |-> <<1, 0, 1>>, uv |-> <<1, 0>>],
                    [pos |-> <<0, 0, 1>>, uv |-> <<0, 0>>],
                    [pos |-> <<1, 0, 0>>, uv |-> <<1, 1>>],
                    [pos |-> <<0, 0, 0>>, uv |-> <<0, 1>>] >>],
    [uvRow |-> 2, dir |-> <<0, 1, 0>>,
     corners |-> << [pos |-> <<0, 1, 1>>, uv |-> <<1, 1>>],
                    [pos |-> <<1, 1, 1>>, uv |-> <<0, 1>>],
                    [pos |-> <<0, 1, 0>>, uv |-> <<1, 0>>],
                    [pos |-> <<1, 1, 0>>, uv |-> <<0, 0>>] >>],
    [uvRow |-> 0, dir |-> <<0, 0, -1>>,
     corners |-> << [pos |-> <<1, 0, 0>>, uv |-> <<0, 0>>],
                    [pos |-> <<0, 0, 0>>, uv |-> <<1, 0>>],
                    [pos |-> <<1, 1, 0>>, uv |-> <<0, 1>>],
                    [pos |-> <<0, 1, 0>>, uv |-> <<1, 1>>] >>],
    [uvRow |-> 0, dir |-> <<0, 0, 1>>,
     corners |-> << [pos |-> <<0, 0, 1>>, uv |-> <<0, 0>>],
                    [pos |-> <<1, 0, 1>>, uv |-> <<1, 0>>],
                    [pos |-> <<0, 1, 1>>, uv |-> <<0, 1>>],
                    [pos |-> <<1, 1, 1>>, uv |-> <<1, 1>>] >>] >>

\* The four corners of one face pushed onto positions, normals and uvs, and
\* its two triangles onto indices.  positions and normals hold integers as
\* they are; uvs are kept in texels, that is the code's u times
\* tileTextureWidth and the code's v times tileTextureHeight.
pushFace(g, face, x, y, z, uvVoxel) ==
    LET ndx == Len(g.positions) \div 3
        c == face.corners
        P(i) == <<c[i].pos[1] + x, c[i].pos[2] + y, c[i].pos[3] + z>>
        T(i) == <<(uvVoxel + c[i].uv[1]) * tileSize,
                  tileTextureHeight - (face.uvRow + 1 - c[i].uv[2]) * tileSize>>
    IN  [g EXCEPT
            !.positions = @ \o P(1) \o P(2) \o P(3) \o P(4),
            !.normals = @ \o face.dir \o face.dir \o face.dir \o face.dir,
            !.uvs = @ \o T(1) \o T(2) \o T(3) \o T(4),
            !.indices = @ \o <<ndx, ndx + 1, ndx + 2, ndx + 2, ndx + 1, ndx + 3>>]

\* (faulty variant) a neighbor outside the cell being meshed counts as empty
withNeighbor_ownCellOnly(g, neighbor, face, x, y, z, voxel) ==
    IF \/ neighbor.ret = 0
       \/ x + face.dir[1] \notin 0..(cellSize - 1)
       \/ y + face.dir[2] \notin 0..(cellSize - 1)
       \/ z + face.dir[3] \notin 0..(cellSize - 1)
    THEN pushFace([g EXCEPT !.cells = neighbor.cells], face, x, y, z, voxel - 1)
    ELSE [g EXCEPT !.cells = neighbor.cells]

\* if (!neighbor) { ... } for the neighbor getVoxel returned
withNeighbor(g, neighbor, face, x, y, z, voxel) ==
    IF neighbor.ret = 0
    THEN pushFace([g EXCEPT !.cells = neighbor.cells], face, x, y, z, voxel - 1)
    ELSE [g EXCEPT !.cells = neighbor.cells]

\* the loop over VoxelWorld.faces for one non-empty voxel, from face g.f on
RECURSIVE geometryFaces(_, _, _, _, _, _, _, _)
geometryFaces(g, startX, startY, startZ, x, y, z, voxel) ==
    IF g.f > Len(faces) THEN g
    ELSE geometryFaces(
             [withNeighbor(g,
                           getVoxel(g.cells,
                                    Num(startX + x + faces[g.f].dir[1]),
                                    Num(startY + y + faces[g.f].dir[2]),
                                    Num(startZ + z + faces[g.f].dir[3])),
                           faces[g.f], x, y, z, voxel)
                 EXCEPT !.f = @ + 1],
             startX, startY, startZ, x, y, z, voxel)

\* if (voxel) { ... } for the voxel getVoxel returned
withVoxel(g, got, startX, startY, startZ, x, y, z) ==
    IF got.ret # 0
    THEN geometryFaces([g EXCEPT !.cells = got.cells, !.f = 1],
                       startX, startY, startZ, x, y, z, got.ret)
    ELSE [g EXCEPT !.cells = got.cells]

\* the body of the three nested loops at local (x, y, z)
geometryVoxel(g, startX, startY, startZ, x, y, z) ==
    withVoxel(g,
              getVoxel(g.cells, Num(startX + x), Num(startY + y), Num(startZ + z)),
              startX, startY, startZ, x, y, z)

\* the three nested loops (y outer, z middle, x inner), from the g.k-th
\* voxel on
RECURSIVE geometryVoxels(_, _, _, _)
geometryVoxels(g, startX, startY, startZ) ==
    IF g.k >= cellSize * cellSize * cellSize THEN g
    ELSE geometryVoxels(
             [geometryVoxel(g, startX, startY, startZ,
                            g.k % cellSize,
                            g.k \div (cellSize * cellSize),
                            (g.k \div cellSize) % cellSize)
                 EXCEPT !.k = @ + 1],
             startX, startY, startZ)

\* return { positions, normals, uvs, indices }
geometryData(g) ==
    [cells |-> g.cells,
     ret |-> [positions |-> g.positions, normals |-> g.normals,
              uvs |-> g.uvs, indices |-> g.indices]]

generateGeometryDataForCell(W, cellX, cellY, cellZ) ==
    geometryData(
        geometryVoxels([cells |-> W, positions |-> <<>>, normals |-> <<>>,
                        uvs |-> <<>>, indices |-> <<>>, k |-> 0, f |-> 1],
                       cellX * cellSize, cellY * cellSize, cellZ * cellSize))

-----------------------------------------------------------------------------
(* VoxelWorld of part_000: one cell, the cell 0,0,0.  C is this.cell. *)

\* whether (x, y, z) is in the cell: getCellForVoxel returns this.cell
\* there and null elsewhere
singleInCell(x, y, z) ==
    LET cellX == cellCoord(x)
        cellY == cellCoord(y)
        cellZ == cellCoord(z)
    IN  ~(cellX # 0 \/ cellY # 0 \/ cellZ # 0)

singleSetVoxel(C, x, y, z, v) ==
    IF ~singleInCell(x, y, z) THEN C
    ELSE [C EXCEPT ![computeVoxelOffset(x, y, z) + 1] = ToUint8(v)]

singleGetVoxel(C, x, y, z) ==
    IF ~singleInCell(x, y, z) THEN 0
    ELSE C[computeVoxelOffset(x, y, z) + 1]

-----------------------------------------------------------------------------
(* intersectRay.  start and end are triples of numbers.                    *)
(*                                                                         *)
(* Distances along the ray are kept in units of the ray's length           *)
(* len = sqrt(lenSq), which is irrational for most rays: the model's       *)
(* dx, dy, dz are the code's times len, the model's t, t?Delta and t?Max   *)
(* are the code's divided by len, and the model's len is 1.  Every         *)
(* comparison of the code (t <= len, txMax < tyMax, ...) and the product   *)
(* t * dx are unchanged by this.  For a ray of length 0 the code divides   *)
(* 0 by 0: dx, dy, dz are NaN and len is 0, here as there.                 *)

\* the locals of intersectRay when the loop is first reached
rayInit(start, end) ==
    LET ex == Sub(end[1], start[1])
        ey == Sub(end[2], start[2])
        ez == Sub(end[3], start[3])
        lenSq == ex * ex + ey * ey + ez * ez
        len == IF lenSq = 0 THEN 0 ELSE Num(1)
        dx == IF lenSq = 0 THEN Div(ex, len) ELSE ex
        dy == IF lenSq = 0 THEN Div(ey, len) ELSE ey
        dz == IF lenSq = 0 THEN Div(ez, len) ELSE ez
        ix == MathFloor(start[1])
        iy == MathFloor(start[2])
        iz == MathFloor(start[3])
        stepX == IF Gt(dx, 0) THEN 1 ELSE -1
        stepY == IF Gt(dy, 0) THEN 1 ELSE -1
        stepZ == IF Gt(dz, 0) THEN 1 ELSE -1
        txDelta == Abs(Div(Num(1), dx))
        tyDelta == Abs(Div(Num(1), dy))
        tzDelta == Abs(Div(Num(1), dz))
        xDist == IF stepX > 0 THEN Num(ix + 1) - start[1] ELSE start[1] - Num(ix)
        yDist == IF stepY > 0 THEN Num(iy + 1) - start[2] ELSE start[2] - Num(iy)
        zDist == IF stepZ > 0 THEN Num(iz + 1) - start[3] ELSE start[3] - Num(iz)
    IN  [start |-> start, end |-> end,
         dx |-> dx, dy |-> dy, dz |-> dz, len |-> len,
         t |-> 0, ix |-> ix, iy |-> iy, iz |-> iz,
         stepX |-> stepX, stepY |-> stepY, stepZ |-> stepZ,
         txDelta |-> txDelta, tyDelta |-> tyDelta, tzDelta |-> tzDelta,
         txMax |-> IF Lt(txDelta, Infinity) THEN Mul(txDelta, xDist) ELSE Infinity,
         tyMax |-> IF Lt(tyDelta, Infinity) THEN Mul(tyDelta, yDist) ELSE Infinity,
         tzMax |-> IF Lt(tzDelta, Infinity) THEN Mul(tzDelta, zDist) ELSE Infinity,
         steppedIndex |-> -1]

\* the loop condition
rayInLoop(r) == Le(r.t, r.len)

\* (faulty variant) the normal has the sign of the step instead of the opposite one
rayHit_stepSign(r, voxel) ==
    [position |-> <<Add(r.start[1], Mul(r.t, r.dx)),
                    Add(r.start[2], Mul(r.t, r.dy)),
                    Add(r.start[3], Mul(r.t, r.dz))>>,
     normal |-> <<IF r.steppedIndex = 0 THEN r.stepX ELSE 0,
                  IF r.steppedIndex = 1 THEN r.stepY ELSE 0,
                  IF r.steppedIndex = 2 THEN r.stepZ ELSE 0>>,
     voxel |-> voxel]

\* the hit record returned for a non-empty voxel
rayHit(r, voxel) ==
    [position |-> <<Add(r.start[1], Mul(r.t, r.dx)),
                    Add(r.start[2], Mul(r.t, r.dy)),
                    Add(r.start[3], Mul(r.t, r.dz))>>,
     normal |-> <<IF r.steppedIndex = 0 THEN -r.stepX ELSE 0,
                  IF r.steppedIndex = 1 THEN -r.stepY ELSE 0,
                  IF r.steppedIndex = 2 THEN -r.stepZ ELSE 0>>,
     voxel |-> voxel]

\* (faulty variant) txMax is not moved to the next boundary
stepAlongX_sameBoundary(r) == [r EXCEPT !.ix = @ + r.stepX, !.t = r.txMax, !.steppedIndex = 0]

stepAlongX(r) == [r EXCEPT !.ix = @ + r.stepX, !.t = r.txMax,
                           !.txMax = Add(@, r.txDelta), !.steppedIndex = 0]
stepAlongY(r) == [r EXCEPT !.iy = @ + r.stepY, !.t = r.tyMax,
                           !.tyMax = Add(@, r.tyDelta), !.steppedIndex = 1]
stepAlongZ(r) == [r EXCEPT !.iz = @ + r.stepZ, !.t = r.tzMax,
                           !.tzMax = Add(@, r.tzDelta), !.steppedIndex = 2]

\* (faulty variant) the comparison of txMax and tyMax is the wrong way round
rayAdvance_farthest(r) ==
    IF Lt(r.tyMax, r.txMax)
    THEN IF Lt(r.txMax, r.tzMax) THEN stepAlongX(r) ELSE stepAlongZ(r)
    ELSE IF Lt(r.tyMax, r.tzMax) THEN stepAlongY(r) ELSE stepAlongZ(r)

\* advance t to the next nearest voxel boundary
rayAdvance(r) ==
    IF Lt(r.txMax, r.tyMax)
    THEN IF Lt(r.txMax, r.tzMax) THEN stepAlongX(r) ELSE stepAlongZ(r)
    ELSE IF Lt(r.tyMax, r.tzMax) THEN stepAlongY(r) ELSE stepAlongZ(r)

\* the body of the loop for the voxel getVoxel returned:
\* [cells, done, ret, ray], ret being the value returned when done
rayBody(r, got) ==
    IF got.ret # 0
    THEN [cells |-> got.cells, done |-> TRUE, ret |-> rayHit(r, got.ret), ray |-> r]
    ELSE [cells |-> got.cells, done |-> FALSE, ret |-> undefined,
          ray |-> rayAdvance(r)]

\* one pass of the loop on store W with locals r; null is undefined
rayIterate(W, r) ==
    IF ~rayInLoop(r)
    THEN [cells |-> W, done |-> TRUE, ret |-> undefined, ray |-> r]
    ELSE rayBody(r, getVoxel(W, Num(r.ix), Num(r.iy), Num(r.iz)))

RECURSIVE rayRun(_, _)
rayLoop(it) ==
    IF it.done THEN [cells |-> it.cells, ret |-> it.ret]
    ELSE rayRun(it.cells, it.ray)

rayRun(W, r) == rayLoop(rayIterate(W, r))

intersectRay(W, start, end) == rayRun(W, rayInit(start, end))

-----------------------------------------------------------------------------
(* main(): the mesh cache and the placeVoxel handler.  M is cellIDToMesh:  *)
(* cellID -> [geometry, position], the attributes of the mesh's geometry   *)
(* and the mesh's position in the scene.                                   *)

\* updateCellGeometry once generateGeometryDataForCell has returned data
setCellGeometry(M, cellID, data, cellX, cellY, cellZ) ==
    [cells |-> data.cells,
     meshes |-> (cellID :> [geometry |-> data.ret,
                            position |-> IF cellID \in DOMAIN M
                                         THEN M[cellID].position
                                         ELSE <<cellX * cellSize, cellY * cellSize,
                                                cellZ * cellSize>>]) @@ M]

updateCellGeometry(W, M, x, y, z) ==
    setCellGeometry(M, computeCellID(x, y, z),
                    generateGeometryDataForCell(W, cellCoord(x), cellCoord(y),
                                                cellCoord(z)),
                    cellCoord(x), cellCoord(y), cellCoord(z))

\* (faulty variant) only the cell of the voxel itself
neighborOffsets_selfOnly == << <<0, 0, 0>> >>

neighborOffsets == << <<0, 0, 0>>, <<-1, 0, 0>>, <<1, 0, 0>>, <<0, -1, 0>>,
                      <<0, 1, 0>>, <<0, 0, -1>>, <<0, 0, 1>> >>

\* updatedCellIDs[cellID] = true once updateCellGeometry has returned upd
updated(u, upd, cellID) ==
    [u EXCEPT !.cells = upd.cells, !.meshes = upd.meshes,
              !.updatedCellIDs = @ \cup {cellID},
              !.extracted = Append(@, cellID)]

\* the body of the loop of updateVoxelGeometry for (ox, oy, oz)
updateAt(u, ox, oy, oz) ==
    IF computeCellID(ox, oy, oz) \notin u.updatedCellIDs
    THEN updated(u, updateCellGeometry(u.cells, u.meshes, ox, oy, oz),
                 computeCellID(ox, oy, oz))
    ELSE u

\* the loop of updateVoxelGeometry from the u.n-th offset on; u is
\* [cells, meshes, updatedCellIDs, n, extracted]
RECURSIVE updateVoxelGeometryFrom(_, _, _, _)
updateVoxelGeometryFrom(u, x, y, z) ==
    IF u.n > Len(neighborOffsets) THEN u
    ELSE updateVoxelGeometryFrom(
             [updateAt(u, x + Num(neighborOffsets[u.n][1]),
                       y + Num(neighborOffsets[u.n][2]),
                       z + Num(neighborOffsets[u.n][3]))
                 EXCEPT !.n = @ + 1],
             x, y, z)

\* what updateVoxelGeometry leaves: the store and cellIDToMesh; extracted
\* lists the cells updateCellGeometry was called for, in order
updatedGeometry(u) ==
    [cells |-> u.cells, meshes |-> u.meshes, extracted |-> u.extracted]

updateVoxelGeometry(W, M, x, y, z) ==
    updatedGeometry(updateVoxelGeometryFrom(
        [cells |-> W, meshes |-> M, updatedCellIDs |-> {}, n |-> 1,
         extracted |-> <<>>], x, y, z))

\* (faulty variant) the intersection point itself, not moved along the normal
placePos_onFace(intersection, voxelID) ==
    [ndx \in 1..3 |-> intersection.position[ndx]]

\* the point placeVoxel writes at, for an intersection and a voxelID
placePos(intersection, voxelID) ==
    [ndx \in 1..3 |->
        intersection.position[ndx]
          + intersection.normal[ndx] * (IF voxelID > 0 THEN Half ELSE -Half)]

\* world.setVoxel(...pos, voxelID); updateVoxelGeometry(...pos)
placeAt(W, M, pos, voxelID) ==
    updateVoxelGeometry(setVoxel(W, pos[1], pos[2], pos[3], voxelID, TRUE).cells,
                        M, pos[1], pos[2], pos[3])

-----------------------------------------------------------------------------
(* Spec: a caller of the VoxelWorld methods.  One world is constructed,    *)
(* the chunked one of main.js or the single-cell one of part_000, and its  *)
(* methods are called in any order on arguments of the sets below.         *)

\* the number of a voxel index or of a triple of voxel indices
NumV(p) == <<Num(p[1]), Num(p[2]), Num(p[3])>>

WriteVoxels == {<<0, 0, 0>>, <<1, 0, 0>>, <<-1, 0, 0>>, <<0, -1, -1>>}
VoxelTypes == {0, 1, 255}
ProbeVoxels == WriteVoxels \cup
    {<<SmallCellSize, 0, 0>>, <<-SmallCellSize, 0, 0>>, <<0, 1, 0>>, <<0, 0, 1>>,
     <<1, -1, -1>>}
GeometryCells == {<<0, 0, 0>>, <<-1, 0, 0>>, <<0, -1, -1>>}
\* rays, as pairs of points in half units
ApiRays == { << <<1, 2, 1>>, <<1, -1, 1>> >>,
             << <<-1, 1, 1>>, <<2, 1, 1>> >>,
             << <<1, 1, 1>>, <<1, 1, 1>> >>,
             << <<-1, -1, 1>>, <<2, 2, 1>> >>,
             << <<1, 0, 0>>, <<-1, -1, -1>> >> }
HalfPoint(h) == <<h[1] * Half, h[2] * Half, h[3] * Half>>

NoRay == undefined

Construct(kind, size) ==
    /\ variant = kind
    /\ cellSize = size
    /\ cells = <<>>
    /\ cell = IF kind = "single" THEN [i \in 1..(size * size * size) |-> 0]
              ELSE undefined
    /\ cellIDToMesh = <<>>
    /\ written = {}
    /\ last = [op |-> "new", args |-> <<>>, ret |-> undefined]
    /\ ray = NoRay
    /\ edits = 0

Init ==
    /\ \E kind \in {"chunked", "single"} : Construct(kind, SmallCellSize)
    /\ pc = "api"

\* a method returns r: the store is as it left it, last is the call
Returns(op, args, r) ==
    /\ cells' = r.cells
    /\ last' = [op |-> op, args |-> args, ret |-> r.ret]

SetVoxel(p, v, addCell) ==
    /\ pc = "api" /\ variant = "chunked"
    /\ Returns("setVoxel", <<p, v, addCell>>,
               setVoxel(cells, Num(p[1]), Num(p[2]), Num(p[3]), v, addCell))
    /\ written' = written \cup {p}
    /\ UNCHANGED <<variant, cellSize, cell, cellIDToMesh, pc, ray, edits>>

GetVoxel(p) ==
    /\ pc = "api" /\ variant = "chunked"
    /\ Returns("getVoxel", <<p>>, getVoxel(cells, Num(p[1]), Num(p[2]), Num(p[3])))
    /\ UNCHANGED <<variant, cellSize, cell, cellIDToMesh, written, pc, ray, edits>>

GenerateGeometryDataForCell(c) ==
    /\ pc = "api" /\ variant = "chunked"
    /\ Returns("generateGeometryDataForCell", <<c>>,
               generateGeometryDataForCell(cells, c[1], c[2], c[3]))
    /\ UNCHANGED <<variant, cellSize, cell, cellIDToMesh, written, pc, ray, edits>>

IntersectRay(start, end) ==
    /\ pc = "api" /\ variant = "chunked"
    /\ Returns("intersectRay", <<start, end>>, intersectRay(cells, start, end))
    /\ UNCHANGED <<variant, cellSize, cell, cellIDToMesh, written, pc, ray, edits>>

SingleSetVoxel(p, v) ==
    /\ pc = "api" /\ variant = "single"
    /\ cell' = singleSetVoxel(cell, Num(p[1]), Num(p[2]), Num(p[3]), v)
    /\ written' = written \cup {p}
    /\ last' = [op |-> "setVoxel", args |-> <<p, v, TRUE>>, ret |-> undefined]
    /\ UNCHANGED <<variant, cellSize, cells, cellIDToMesh, pc, ray, edits>>

SingleGetVoxel(p) ==
    /\ pc = "api" /\ variant = "single"
    /\ last' = [op |-> "getVoxel", args |-> <<p>>,
                ret |-> singleGetVoxel(cell, Num(p[1]), Num(p[2]), Num(p[3]))]
    /\ UNCHANGED <<variant, cellSize, cells, cell, cellIDToMesh, written, pc, ray, edits>>

Next ==
    \/ \E p \in WriteVoxels, v \in VoxelTypes, addCell \in BOOLEAN : SetVoxel(p, v, addCell)
    \/ \E p \in ProbeVoxels : GetVoxel(p)
    \/ \E c \in GeometryCells : GenerateGeometryDataForCell(c)
    \/ \E r \in ApiRays : IntersectRay(HalfPoint(r[1]), HalfPoint(r[2]))
    \/ \E p \in WriteVoxels, v \in VoxelTypes : SingleSetVoxel(p, v)
    \/ \E p \in ProbeVoxels : SingleGetVoxel(p)

Spec == Init /\ [][Next]_vars

-----------------------------------------------------------------------------
(* CoordSpec: computeCellID and computeVoxelOffset as functions of their   *)
(* arguments, on worlds of the model's cell sizes and of main()'s.         *)

CoordCellSizes == {SmallCellSize, SmallCellSize + 1, mainCellSize}
CoordInputs == {-cellSize - 1, -cellSize, -1, 0, 1, cellSize - 1, cellSize,
                2 * cellSize + 1}

CoordInit ==
    /\ \E size \in CoordCellSizes : Construct("chunked", size)
    /\ pc = "coord"

ComputeCoord(p) ==
    /\ pc = "coord"
    /\ last' = [op |-> "compute", args |-> <<p>>,
                ret |-> [cellID |-> computeCellID(Num(p[1]), Num(p[2]), Num(p[3])),
                         offset |-> computeVoxelOffset(Num(p[1]), Num(p[2]), Num(p[3]))]]
    /\ UNCHANGED <<variant, cellSize, cells, cell, cellIDToMesh, written, pc, ray, edits>>

CoordNext == \E x \in CoordInputs, y \in CoordInputs, z \in CoordInputs :
                ComputeCoord(<<x, y, z>>)

CoordSpec == CoordInit /\ [][CoordNext]_vars

-----------------------------------------------------------------------------
(* RaySpec: main().  The world of main() is filled with voxels, the meshes *)
(* are built, then one ray is cast: the loop of intersectRay is taken one  *)
(* pass at a time, and placeVoxel goes on with the intersection returned.  *)

\* the voxels filled before the ray is cast, and their types
SeedVoxels == {<<0, 0, 0>>, <<-1, 0, 0>>, <<0, 0, 1>>}
SeedType(p) == 1 + ((p[1] + 2 * p[2] + 3 * p[3]) % 16)
\* start and end points of rays, in half units
RayCoords == (-MaxRay)..(MaxRay + 1)
RayStarts == RayCoords \X RayCoords \X {1}
RayEnds == RayCoords \X RayCoords \X {1, 2}
\* event.shiftKey ? 0 : currentVoxel
VoxelIDs == {0, 5}

RayInit ==
    /\ Construct("chunked", SmallCellSize)
    /\ pc = "seed"

SeedVoxel(p) ==
    /\ pc = "seed"
    /\ p \notin written
    /\ cells' = setVoxel(cells, Num(p[1]), Num(p[2]), Num(p[3]), SeedType(p), TRUE).cells
    /\ written' = written \cup {p}
    /\ last' = [op |-> "setVoxel", args |-> <<p, SeedType(p), TRUE>>, ret |-> undefined]
    /\ UNCHANGED <<variant, cellSize, cell, cellIDToMesh, pc, ray, edits>>

Updated(u) == cells' = u.cells /\ cellIDToMesh' = u.meshes

\* updateVoxelGeometry(1, 1, 1)
SeedDone ==
    /\ pc = "seed"
    /\ Updated(updateVoxelGeometry(cells, cellIDToMesh, Num(1), Num(1), Num(1)))
    /\ pc' = "idle"
    /\ last' = [op |-> "updateVoxelGeometry", args |-> <<1, 1, 1>>, ret |-> undefined]
    /\ UNCHANGED <<variant, cellSize, cell, written, ray, edits>>

\* intersectRay(start, end) up to its loop
RayBegin(start, end) ==
    /\ pc = "idle"
    /\ ray' = rayInit(HalfPoint(start), HalfPoint(end))
    /\ pc' = "ray"
    /\ last' = [op |-> "intersectRay", args |-> <<start, end>>, ret |-> undefined]
    /\ UNCHANGED <<variant, cellSize, cells, cell, cellIDToMesh, written, edits>>

RayStepTo(it) ==
    /\ cells' = it.cells
    /\ ray' = it.ray
    /\ pc' = IF it.done THEN "returned" ELSE "ray"
    /\ last' = IF it.done THEN [last EXCEPT !.ret = it.ret] ELSE last

\* one test of the loop condition, and one pass of the loop if it holds
RayStep ==
    /\ pc = "ray"
    /\ RayStepTo(rayIterate(cells, ray))
    /\ UNCHANGED <<variant, cellSize, cell, cellIDToMesh, written, edits>>

PlacedAt(pos, voxelID) ==
    /\ Updated(placeAt(cells, cellIDToMesh, pos, voxelID))
    /\ written' = written \cup {<<MathFloor(pos[1]), MathFloor(pos[2]), MathFloor(pos[3])>>}
    /\ last' = [op |-> "placeVoxel", args |-> <<last.ret, voxelID>>, ret |-> pos]

\* placeVoxel from if (intersection) on; its ray runs from the camera to a
\* point of the far plane and has a length
PlaceVoxel(voxelID) ==
    /\ pc = "returned"
    /\ ray.len # 0
    /\ last.ret # undefined
    /\ PlacedAt(placePos(last.ret, voxelID), voxelID)
    /\ pc' = "placed"
    /\ edits' = edits + 1
    /\ UNCHANGED <<variant, cellSize, cell, ray>>

RayNext ==
    \/ \E p \in SeedVoxels : SeedVoxel(p)
    \/ SeedDone
    \/ \E start \in RayStarts, end \in RayEnds : RayBegin(start, end)
    \/ RayStep
    \/ \E voxelID \in VoxelIDs : PlaceVoxel(voxelID)

RaySpec == RayInit /\ [][RayNext]_vars

-----------------------------------------------------------------------------
(* EditSpec: main() as the user edits.  The body of main() fills the cell  *)
(* 0,0,0 below a height map and builds the meshes; then each click runs    *)
(* placeVoxel to its end: the ray, the write and the mesh updates.         *)

\* The height of column (x, z).  The code's height is a sum of sines; the
\* model draws the two heights a height map <<a, b>> has, at x = 0 and at
\* x > 0, from 1 .. cellSize.
HeightMaps == (1..SmallCellSize) \X (1..SmallCellSize)
height(h, x, z) == IF x = 0 THEN h[1] ELSE h[2]

\* if (y < height) world.setVoxel(x, y, z, randInt(1, 17)) at the s.k-th
\* voxel of the loops (y outer, z middle, x inner)
seedAt(s, h, x, y, z) ==
    IF y < height(h, x, z)
    THEN [s EXCEPT !.cells = setVoxel(s.cells, Num(x), Num(y), Num(z),
                                      SeedType(<<x, y, z>>), TRUE).cells,
                   !.k = @ + 1]
    ELSE [s EXCEPT !.k = @ + 1]

RECURSIVE seedFrom(_, _)
seedFrom(s, h) ==
    IF s.k >= cellSize * cellSize * cellSize THEN s
    ELSE seedFrom(seedAt(s, h, s.k % cellSize, s.k \div (cellSize * cellSize),
                         (s.k \div cellSize) % cellSize), h)

\* the rays of the clicks, start and end in half units
EditRays ==
    { << <<-1, 1, 1>>, <<2, 1, 1>> >>,      \* towards positive x
      << <<1, 2, 1>>, <<1, -1, 1>> >>,      \* straight down
      << <<1, 1, 1>>, <<2, 2, 2>> >>,       \* from inside the voxel 0,0,0
      << <<-1, -1, 1>>, <<2, 2, 1>> >>,     \* through the edge x = 0, y = 0
      << <<-1, -1, 1>>, <<-1, 2, 1>> >>,    \* upwards at x = -0.5
      << <<2, -1, 1>>, <<2, 2, 1>> >> }     \* upwards at x = 1

EditInit ==
    /\ Construct("chunked", SmallCellSize)
    /\ pc = "seed"

\* the body of main(): the height map loops and updateVoxelGeometry(1, 1, 1)
SeedHeights(h) ==
    /\ pc = "seed"
    /\ Updated(updateVoxelGeometry(seedFrom([cells |-> cells, k |-> 0], h).cells,
                                   cellIDToMesh, Num(1), Num(1), Num(1)))
    /\ pc' = "idle"
    /\ last' = [op |-> "main", args |-> <<h>>, ret |-> undefined]
    /\ written' = {v \in (0..(cellSize - 1)) \X (0..(cellSize - 1)) \X (0..(cellSize - 1)) :
                       v[2] < height(h, v[1], v[3])}
    /\ UNCHANGED <<variant, cellSize, cell, ray, edits>>

Edited(u, pos, voxelID) ==
    /\ Updated(u)
    /\ written' = written \cup {<<MathFloor(pos[1]), MathFloor(pos[2]), MathFloor(pos[3])>>}
    /\ last' = [op |-> "placeVoxel", args |-> <<voxelID>>,
                ret |-> [voxel |-> <<MathFloor(pos[1]), MathFloor(pos[2]),
                                     MathFloor(pos[3])>>,
                         extracted |-> u.extracted]]

\* placeVoxel from if (intersection) on, it being what intersectRay left
EditWith(it, voxelID) ==
    /\ it.ret # undefined
    /\ Edited(placeAt(it.cells, cellIDToMesh, placePos(it.ret, voxelID), voxelID),
              placePos(it.ret, voxelID), voxelID)

\* one click: placeVoxel
EditVoxel(start, end, voxelID) ==
    /\ pc = "idle"
    /\ edits < MaxEdits
    /\ EditWith(intersectRay(cells, HalfPoint(start), HalfPoint(end)), voxelID)
    /\ edits' = edits + 1
    /\ UNCHANGED <<variant, cellSize, cell, pc, ray>>

EditNext ==
    \/ \E h \in HeightMaps : SeedHeights(h)
    \/ \E r \in EditRays, voxelID \in VoxelIDs : EditVoxel(r[1], r[2], voxelID)

EditSpec == EditInit /\ [][EditNext]_vars

-----------------------------------------------------------------------------
(* The claims on the store and on mesh extraction *)

Chunked == variant = "chunked"
\* the most recent call is setVoxel(p, v, addCell) on the chunked world
LastSet == Chunked /\ pc = "api" /\ last.op = "setVoxel"

\* C1: after setVoxel(x, y, z, type) with type # 0 and the default addCell,
\* getVoxel(x, y, z) returns type, and the same setVoxel call made again
\* leaves the store as it is.
C1_SetThenGet ==
    (LastSet /\ last.args[2] # 0 /\ last.args[3]) =>
        LET p == NumV(last.args[1])
        IN  /\ getVoxel(cells, p[1], p[2], p[3]).ret = last.args[2]
            /\ setVoxel(cells, p[1], p[2], p[3], last.args[2], TRUE).cells = cells

\* a type-255 voxel has just been written at a negative coordinate
C1_Witness ==
    /\ LastSet /\ last.args = << <<0, -1, -1>>, 255, TRUE >>
    /\ <<-1, 0, 0>> \in written

\* C2: getVoxel returns 0 at every coordinate setVoxel was never called on,
\* whether its cell exists or not.
C2_UnwrittenIsEmpty ==
    Chunked /\ pc = "api" =>
        \A p \in ProbeVoxels :
            p \notin written => getVoxel(cells, Num(p[1]), Num(p[2]), Num(p[3])).ret = 0

\* a cell at negative x holds a written voxel and an unwritten one, and
\* the cell 0,0,0 does not exist
C2_Witness ==
    /\ Chunked /\ pc = "api"
    /\ <<-1, 0, 0>> \in written
    /\ getVoxel(cells, Num(-1), 0, 0).ret # 0
    /\ <<-SmallCellSize, 0, 0>> \notin written
    /\ <<0, 0, 0>> \notin DOMAIN cells

\* C3: computeCellID is the floor of each axis divided by cellSize and
\* computeVoxelOffset is ly * cellSize^2 + lz * cellSize + lx for the local
\* coordinates l = voxel - cell * cellSize, each in 0 .. cellSize - 1; with
\* cellSize 32 the voxel (-1, 0, 0) is in cell (-1, 0, 0) at offset 31.
C3_CellAndOffset ==
    (pc = "coord" /\ last.op = "compute") =>
        LET p == last.args[1]
            id == last.ret.cellID
            l == [i \in 1..3 |-> p[i] - id[i] * cellSize]
        IN  /\ \A i \in 1..3 : l[i] \in 0..(cellSize - 1)
            /\ last.ret.offset = l[2] * cellSize * cellSize + l[3] * cellSize + l[1]
            /\ (cellSize = 32 /\ p = <<-1, 0, 0>>) =>
                   (id = <<-1, 0, 0>> /\ last.ret.offset = 31)

C3_Witness ==
    /\ pc = "coord" /\ last.op = "compute" /\ cellSize = 32
    /\ last.args[1] = <<-1, 0, 0>>
    /\ last.ret.offset = 31

\* C4: a setVoxel with addCell false on a voxel whose cell does not exist
\* changes nothing and getVoxel there stays 0; a setVoxel on a voxel whose
\* cell exists stores the type whatever the flag; in the single-cell world
\* a setVoxel outside the cell 0,0,0 changes nothing.
C4Step ==
    last'.op = "setVoxel" =>
        LET p == NumV(last'.args[1])
            v == last'.args[2]
            addCell == last'.args[3]
            cellID == computeCellID(p[1], p[2], p[3])
        IN  /\ (Chunked /\ ~addCell /\ cellID \notin DOMAIN cells) =>
                   (cells' = cells /\ getVoxel(cells', p[1], p[2], p[3]).ret = 0)
            /\ (Chunked /\ cellID \in DOMAIN cells) =>
                   /\ getVoxel(cells', p[1], p[2], p[3]).ret = ToUint8(v)
                   /\ DOMAIN cells' = DOMAIN cells
            /\ (variant = "single" /\ cellID # <<0, 0, 0>>) => cell' = cell
C4_DroppedWrite == [][C4Step]_vars

\* a write of a non-empty type with addCell false has just been dropped
\* while another cell exists
C4_Witness ==
    /\ LastSet /\ ~last.args[3] /\ last.args[2] # 0
    /\ computeCellID(Num(last.args[1][1]), Num(last.args[1][2]), Num(last.args[1][3]))
           \notin DOMAIN cells
    /\ cells # <<>>

\* the voxels of cell c, and whether a voxel of store W is non-empty
VoxelsOfCell(c) ==
    {<<c[1] * cellSize + x, c[2] * cellSize + y, c[3] * cellSize + z>> :
        x \in 0..(cellSize - 1), y \in 0..(cellSize - 1), z \in 0..(cellSize - 1)}
Solid(W, v) == getVoxel(W, Num(v[1]), Num(v[2]), Num(v[3])).ret # 0
Plus(v, d) == <<v[1] + d[1], v[2] + d[2], v[3] + d[3]>>
\* the faces to render: a non-empty voxel of the cell, a face whose neighbor is empty
VisibleFaces(W, c) ==
    {vf \in VoxelsOfCell(c) \X (1..6) :
        Solid(W, vf[1]) /\ ~Solid(W, Plus(vf[1], faces[vf[2]].dir))}
\* vertex n (from 0) of a mesh: its position and its normal
VertexPos(m, n) == <<m.positions[3 * n + 1], m.positions[3 * n + 2], m.positions[3 * n + 3]>>
VertexNormal(m, n) == <<m.normals[3 * n + 1], m.normals[3 * n + 2], m.normals[3 * n + 3]>>
\* whether quad q (from 0) of mesh m is face f of voxel v of cell c
QuadIs(m, q, c, v, f) ==
    /\ \A i \in 1..4 :
          /\ VertexPos(m, 4 * q + i - 1) =
                 Plus(faces[f].corners[i].pos,
                      <<v[1] - c[1] * cellSize, v[2] - c[2] * cellSize,
                        v[3] - c[3] * cellSize>>)
          /\ VertexNormal(m, 4 * q + i - 1) = faces[f].dir
    /\ SubSeq(m.indices, 6 * q + 1, 6 * q + 6) =
           <<4 * q, 4 * q + 1, 4 * q + 2, 4 * q + 2, 4 * q + 1, 4 * q + 3>>
\* the voxels of the store that are non-empty, among those the model writes
SolidWritten == {v \in WriteVoxels : Solid(cells, v)}

\* C5: the mesh of a cell has exactly one quad (4 vertices, 4 normals, the
\* indices ndx + (0,1,2,2,1,3)) for each non-empty voxel of the cell and
\* face whose neighbor in the whole store is empty, and no other quad; a
\* lone non-empty voxel gives 6 quads, 24 vertices and 36 indices.
C5_OneQuadPerVisibleFace ==
    (Chunked /\ pc = "api" /\ last.op = "generateGeometryDataForCell") =>
        LET c == last.args[1]
            m == last.ret
            n == Len(m.indices) \div 6
            visible == VisibleFaces(cells, c)
        IN  /\ Len(m.indices) = 6 * n
            /\ Len(m.positions) = 12 * n
            /\ Len(m.normals) = 12 * n
            /\ n = Cardinality(visible)
            /\ \A q \in 0..(n - 1) : \E vf \in visible : QuadIs(m, q, c, vf[1], vf[2])
            /\ \A vf \in visible : \E q \in 0..(n - 1) : QuadIs(m, q, c, vf[1], vf[2])
            /\ (Cardinality(SolidWritten) = 1 /\ SolidWritten \subseteq VoxelsOfCell(c)) =>
                   (n = 6 /\ Len(m.positions) = 3 * 24 /\ Len(m.indices) = 36)

\* the cell 0,0,0 has just been meshed with its voxel (0,0,0) non-empty,
\* the neighbor (-1,0,0) in the next cell non-empty and the neighbor
\* (0,-1,0) in a cell that does not exist: 5 quads
C5_Witness ==
    /\ Chunked /\ pc = "api" /\ last.op = "generateGeometryDataForCell"
    /\ last.args[1] = <<0, 0, 0>>
    /\ SolidWritten = {<<0, 0, 0>>, <<-1, 0, 0>>}
    /\ <<0, -1, 0>> \notin DOMAIN cells
    /\ Len(last.ret.indices) = 30

ReadOps == {"getVoxel", "generateGeometryDataForCell", "intersectRay"}

\* C10: getVoxel, generateGeometryDataForCell and intersectRay leave the
\* set of cells and every stored voxel unchanged; no call removes a cell,
\* and only setVoxel adds one.
C10Step ==
    Chunked =>
        /\ last'.op \in ReadOps => cells' = cells
        /\ DOMAIN cells \subseteq DOMAIN cells'
        /\ DOMAIN cells' # DOMAIN cells => last'.op = "setVoxel"
C10_ReadsDoNotWrite == [][C10Step]_vars

\* a cell that does not exist has just been meshed while another exists
C10_Witness ==
    /\ Chunked /\ pc = "api" /\ last.op = "generateGeometryDataForCell"
    /\ last.args[1] \notin DOMAIN cells
    /\ cells # <<>>

-----------------------------------------------------------------------------
(* The claims on intersectRay and placeVoxel.  The segment of a ray is     *)
(* looked at in the points start + (k / Unit) * (end - start), k in        *)
(* 0 .. Unit: the segment crosses the faces of the grid at multiples of    *)
(* 2 / Unit, so every piece of it inside one voxel holds such a point.     *)

Samples == 0..Unit
\* Unit times coordinate a of the k-th point of the segment of ray r
SegmentAt(r, k, a) == Unit * r.start[a] + k * (r.end[a] - r.start[a])
\* the k-th point is inside voxel v, or in v or on its surface
InVoxel(r, k, v) ==
    \A a \in 1..3 : /\ Unit * Num(v[a]) < SegmentAt(r, k, a)
                    /\ SegmentAt(r, k, a) < Unit * Num(v[a] + 1)
OnVoxel(r, k, v) ==
    \A a \in 1..3 : /\ Unit * Num(v[a]) <= SegmentAt(r, k, a)
                    /\ SegmentAt(r, k, a) <= Unit * Num(v[a] + 1)
PassesThrough(r, v) == \E k \in Samples : InVoxel(r, k, v)
Touches(r, v) == \E k \in Samples : OnVoxel(r, k, v)
\* the k-th point is the point p
PointIs(r, k, p) == \A a \in 1..3 : Unit * p[a] = SegmentAt(r, k, a)

\* the non-empty voxels while a ray is cast, the voxel the loop of
\* intersectRay is at, and the voxel of a point
Solids == {v \in SeedVoxels : Solid(cells, v)}
Struck == <<ray.ix, ray.iy, ray.iz>>
FloorV(p) == <<MathFloor(p[1]), MathFloor(p[2]), MathFloor(p[3])>>
TypeAt(W, v) == getVoxel(W, Num(v[1]), Num(v[2]), Num(v[3])).ret
\* intersectRay has returned for a ray with a length; it has returned a hit
Returned == pc = "returned" /\ ray.len # 0
Hit == pc = "returned" /\ last.ret # undefined

\* the hit is on the segment, on the voxel the loop stopped at, which is
\* non-empty and of the type returned, and the segment is inside no
\* non-empty voxel before the hit
FirstHit(hit) ==
    \E k \in Samples :
        /\ PointIs(ray, k, hit.position)
        /\ OnVoxel(ray, k, Struck)
        /\ Struck \in Solids
        /\ hit.voxel = TypeAt(cells, Struck)
        /\ \A j \in 0..(k - 1) : \A v \in Solids : ~InVoxel(ray, j, v)

\* C6 (as claimed): intersectRay returns a hit exactly when the segment
\* passes through a non-empty voxel, and the hit is the first such voxel.
C6_Original ==
    Returned =>
        /\ last.ret # undefined <=> \E v \in Solids : PassesThrough(ray, v)
        /\ last.ret # undefined => FirstHit(last.ret)

\* C6 (amended): intersectRay returns a hit whenever the segment passes
\* through the inside of a non-empty voxel and null whenever the segment
\* does not even touch one; a hit is on the segment, on a non-empty voxel
\* whose type it carries, and no non-empty voxel is entered before it.  A
\* non-empty voxel the segment only touches may or may not be hit.
C6_FirstVoxelEntered ==
    Returned =>
        /\ (\E v \in Solids : PassesThrough(ray, v)) => last.ret # undefined
        /\ (\A v \in Solids : ~Touches(ray, v)) => last.ret = undefined
        /\ last.ret # undefined => FirstHit(last.ret)

\* only voxel (0,0,0) is non-empty and the ray from (0.5, 1, 0.5) straight
\* down to (0.5, -0.5, 0.5) has hit it at y = 1
C6_Witness ==
    /\ Returned /\ Hit
    /\ Solids = {<<0, 0, 0>>}
    /\ last.args = << <<1, 2, 1>>, <<1, -1, 1>> >>
    /\ last.ret.position = <<Half, Num(1), Half>>
    /\ last.ret.voxel = SeedType(<<0, 0, 0>>)

\* the normal is -1 or 1 on one axis and 0 on the other two, it points
\* against the ray on that axis, that axis was stepped last, and the hit
\* is on the face of the voxel the normal points out of
FaceNormal(hit) ==
    \E a \in 1..3 :
        /\ hit.normal[a] \in {-1, 1}
        /\ \A b \in 1..3 \ {a} : hit.normal[b] = 0
        /\ hit.normal[a] * (ray.end[a] - ray.start[a]) < 0
        /\ ray.steppedIndex = a - 1
        /\ hit.position[a] = Num(Struck[a] + (IF hit.normal[a] = 1 THEN 1 ELSE 0))

\* C7 (as claimed): every hit, a hit in the voxel of the start point
\* included, has a normal that is non-zero on exactly the axis stepped
\* last and points against the step.
C7_Original == Hit => FaceNormal(last.ret)

\* C7 (amended): a hit found after the traversal has stepped has a normal
\* that is non-zero on exactly the axis stepped last and points against
\* the step, the hit being on that face of the voxel; a hit in the voxel
\* of the start point, found before any step, has the normal (0, 0, 0).
C7_NormalOfLastStep ==
    Hit => IF Struck = FloorV(ray.start)
           THEN last.ret.normal = <<0, 0, 0>> /\ ray.steppedIndex = -1
           ELSE FaceNormal(last.ret)

\* a ray going towards negative x has hit the voxel (-1,0,0) on its face
\* x = 0, after passing the empty voxel (0,0,0)
C7_Witness ==
    /\ Hit
    /\ Struck = <<-1, 0, 0>>
    /\ last.ret.normal = <<1, 0, 0>>
    /\ last.ret.position[1] = 0
    /\ FloorV(ray.start) = <<0, 0, 0>>

\* the number of passes of the loop that have stepped, and a bound of it
\* from the voxels of the start and end points
Stepped(r) ==
    Abs(r.ix - MathFloor(r.start[1])) + Abs(r.iy - MathFloor(r.start[2]))
        + Abs(r.iz - MathFloor(r.start[3]))
StepBound(r) ==
    Abs(MathFloor(r.end[1]) - MathFloor(r.start[1]))
        + Abs(MathFloor(r.end[2]) - MathFloor(r.start[2]))
        + Abs(MathFloor(r.end[3]) - MathFloor(r.start[3])) + 4

\* C8: every pass of the loop of intersectRay that does not return moves
\* to another voxel and does not decrease t; the number of passes is
\* bounded from the start and end points (rays along an axis and rays of
\* length 0 included); when the loop ends without a hit t is beyond the
\* length, and a ray in a world without non-empty voxels returns null.
C8Step ==
    /\ (pc = "ray" /\ pc' = "ray") =>
           /\ Le(ray.t, ray'.t)
           /\ Stepped(ray') = Stepped(ray) + 1
    /\ pc' = "ray" => Stepped(ray') <= StepBound(ray')
    /\ (pc = "ray" /\ pc' = "returned" /\ last'.ret = undefined) => Gt(ray'.t, ray'.len)
    /\ (pc' = "returned" /\ Solids = {}) => last'.ret = undefined
OnOneFace(hit) ==
    /\ hit.normal # <<0, 0, 0>>
    /\ \A a \in 1..3 :
          hit.normal[a] = 0 =>
              (hit.position[a] % Unit # 0 \/ ray.end[a] = ray.start[a])

\* placeVoxel has written voxelID at the voxel of pos: it reads back, and
\* (for the hits of Where) a placement is in the empty voxel next to the
\* face hit and a removal in the voxel hit
Picked(W, hit, voxelID, pos, Where) ==
    /\ TypeAt(cells', FloorV(pos)) = voxelID
    /\ Where =>
          IF voxelID > 0
          THEN /\ FloorV(pos) = Plus(Struck, hit.normal)
               /\ TypeAt(W, FloorV(pos)) = 0
          ELSE FloorV(pos) = Struck

\* C9 (as claimed): after placeVoxel the voxel of hit + 0.5 * normal (or
\* hit - 0.5 * normal for type 0) reads the type written; for a placement
\* it is the empty voxel next to the face hit, for a removal the voxel hit.
C9OriginalStep ==
    pc' = "placed" => Picked(cells, last.ret, last'.args[2], last'.ret, TRUE)
C9_Original == [][C9OriginalStep]_vars

\* C9 (amended): after placeVoxel the voxel of hit + 0.5 * normal (or
\* hit - 0.5 * normal for type 0) reads the type written; when the hit has
\* a non-zero normal and is on no other face of the grid (on the other two
\* axes its coordinate is not an integer, or the ray does not move), a
\* placement is in the empty voxel next to the face hit and a removal in
\* the voxel hit.
C9Step ==
    pc' = "placed" =>
        Picked(cells, last.ret, last'.args[2], last'.ret, OnOneFace(last.ret))
C9_PickingRoundTrip == [][C9Step]_vars

\* a voxel has been placed at negative x, next to the face x = 0 of the
\* voxel (0,0,0), which a ray going towards positive x has hit
C9_Witness ==
    /\ pc = "placed"
    /\ last.args[2] = 5
    /\ last.args[1].normal = <<-1, 0, 0>>
    /\ OnOneFace(last.args[1])
    /\ Struck = <<0, 0, 0>>
    /\ FloorV(last.ret) = <<-1, 0, 0>>
    /\ TypeAt(cells, <<-1, 0, 0>>) = 5

-----------------------------------------------------------------------------
(* The claim on the frame of setVoxel *)

\* where a voxel is stored: its cell and its offset in the cell
Slot(q) ==
    <<computeCellID(Num(q[1]), Num(q[2]), Num(q[3])),
      computeVoxelOffset(Num(q[1]), Num(q[2]), Num(q[3]))>>

\* C12: setVoxel(p, v) leaves getVoxel(q) as it was for every voxel q other
\* than p, in the cell of p, in another cell or across zero, and getVoxel(p)
\* is v once the write is stored; no other voxel is stored at the offset
\* of the cell where p is.
C12Step ==
    (Chunked /\ last'.op = "setVoxel") =>
           /\ \A q \in ProbeVoxels \ {last'.args[1]} :
                  /\ Slot(q) # Slot(last'.args[1])
                  /\ TypeAt(cells', q) = TypeAt(cells, q)
           /\ (last'.args[3] \/ Slot(last'.args[1])[1] \in DOMAIN cells) =>
                  TypeAt(cells', last'.args[1]) = ToUint8(last'.args[2])
C12_WriteTouchesOwnVoxel == [][C12Step]_vars

\* 255 has just been written at (-1,0,0) while (1,0,0), across zero, and
\* (0,-1,-1), in a third cell, keep the 1 written there before
C12_Witness ==
    /\ LastSet /\ last.args = << <<-1, 0, 0>>, 255, TRUE >>
    /\ TypeAt(cells, <<-1, 0, 0>>) = 255
    /\ TypeAt(cells, <<1, 0, 0>>) = 1
    /\ TypeAt(cells, <<0, -1, -1>>) = 1

-----------------------------------------------------------------------------
(* The claim on the meshes main() keeps *)

\* the mesh kept for cell id is the mesh of the cell in the store as it is
\* now, placed at the corner of the cell
MeshIsCurrent(id) ==
    /\ cellIDToMesh[id].geometry =
           generateGeometryDataForCell(cells, id[1], id[2], id[3]).ret
    /\ cellIDToMesh[id].position =
           <<id[1] * cellSize, id[2] * cellSize, id[3] * cellSize>>
\* the cells of a voxel and of its six face neighbors
CellsAround(v) ==
    {<<(v[1] + d[1]) \div cellSize, (v[2] + d[2]) \div cellSize,
       (v[3] + d[3]) \div cellSize>> :
        d \in {<<0, 0, 0>>, <<1, 0, 0>>, <<-1, 0, 0>>, <<0, 1, 0>>, <<0, -1, 0>>,
               <<0, 0, 1>>, <<0, 0, -1>>}}
\* main() has built the meshes and every click so far has been handled
Settled == pc = "idle" /\ last.op \in {"main", "placeVoxel"}

\* C11: after the first updateVoxelGeometry and after every placeVoxel,
\* the mesh kept for each cell is the mesh generateGeometryDataForCell
\* returns for it on the store as it is, every cell with a non-empty voxel
\* has a mesh, and the placeVoxel has extracted, once each, exactly the
\* cells of the edited voxel and of its six face neighbors.
C11_MeshesAreCurrent ==
    Settled =>
        /\ \A id \in DOMAIN cellIDToMesh : MeshIsCurrent(id)
        /\ \A id \in DOMAIN cells :
               (\E i \in DOMAIN cells[id] : cells[id][i] # 0) =>
                   id \in DOMAIN cellIDToMesh
        /\ last.op = "placeVoxel" =>
               /\ \A i \in DOMAIN last.ret.extracted :
                      \A j \in DOMAIN last.ret.extracted :
                          i # j => last.ret.extracted[i] # last.ret.extracted[j]
               /\ {last.ret.extracted[i] : i \in DOMAIN last.ret.extracted} =
                      CellsAround(last.ret.voxel)

\* a second click has placed a voxel at (-1,0,0), in a cell of its own
\* beside the non-empty voxel (0,0,0) of the cell 0,0,0; four cells were
\* extracted and the cell -1,0,0 has a mesh with the voxel's five faces
C11_Witness ==
    /\ Settled /\ edits = 2
    /\ last.op = "placeVoxel" /\ last.args = <<5>>
    /\ last.ret.voxel = <<-1, 0, 0>>
    /\ getVoxel(cells, 0, 0, 0).ret # 0
    /\ Len(last.ret.extracted) = 4
    /\ <<-1, 0, 0>> \in DOMAIN cellIDToMesh
    /\ Len(cellIDToMesh[<<-1, 0, 0>>].geometry.indices) = 30

=============================================================================
